---- MODULE Spec2Model ----
(***************************************************************************)
(* JSON Lines streaming codec (stream/jsonl.ts): the producer dehydrates a *)
(* root mapping into a head line plus a multiplex of chunk lines keyed by  *)
(* chunk-id; the consumer rehydrates every chunk-id into a future or a     *)
(* lazy sequence bound to a per-id sub-stream.                             *)
(***************************************************************************)
EXTENDS Integers, Sequences, FiniteSets, TLC

VARIABLES
  data,       \* opts.data: the root mapping, a sequence of <<key, value>>
  maxDepth,   \* opts.maxDepth (0 = not set, falsy)
  pstate,     \* "init" | "running" | "threw": jsonlStreamProducer not called / returned / threw
  counter,    \* let counter = 0
  pending,    \* const pending = new Set<ChunkIndex>()
  tasks,      \* chunk-id -> the background task of that deferred leaf
  alloc,      \* the chunk-ids in the order dehydratePromise/dehydrateAsyncIterable allocated them
  wire,       \* the lines the producer's byte stream carries, in order
  closed,     \* stream.controller.close() has been called
  cancelled,  \* stream.cancelled()
  errs,       \* the calls of opts.onError, as <<path, error>>
  unhandled,  \* chunk-ids whose task ended in an exception nobody handles
  headDeferred,  \* "pending" | "null" (resolved, set to null) | "rejected"
  head,          \* the hydrated head handed to the caller
  controllers,   \* keys of the controllers map
  chunkDeferred, \* keys of the chunkDeferred map
  sub,           \* chunk-id -> the sub-stream createReadableStream() made for it: its
                 \* queue q, whether it is closed, and hist, every chunk enqueued to it
  wrappers,      \* chunk-id -> the future / lazy sequence hydrateChunkDefinition returned
  writer,        \* the sink's write(): idle, or suspended on a chunkDeferred
  rd,            \* number of lines of the wire the sink has taken
  sink,          \* "open" | "closed" (clean end) | "aborted" (interruption)
  source,        \* createLineAccumulator: the text chunks its reader delivers, in order
  taken,         \* number of chunks of source that transform() has been given
  lineAggregate, \* let lineAggregate = ''
  lines,         \* the lines the framer has enqueued, in order
  ended,         \* the framer's input has ended and its output is closed
  order          \* the consumer's user code: the root keys in the order it awaits their leaves

pvars == <<data, maxDepth, pstate, counter, pending, tasks, alloc, wire, closed,
           cancelled, errs, unhandled>>
cvars == <<headDeferred, head, controllers, chunkDeferred, sub, wrappers, writer, rd, sink>>
fvars == <<source, taken, lineAggregate, lines, ended>>
vars == <<data, maxDepth, pstate, counter, pending, tasks, alloc, wire, closed,
          cancelled, errs, unhandled,
          headDeferred, head, controllers, chunkDeferred, sub, wrappers, writer, rd, sink,
          source, taken, lineAggregate, lines, ended, order>>

----------------------------------------------------------------------------
\* Wire constants (jsonl.ts:23-38, 121)
CHUNK_VALUE_TYPE_PROMISE == 0
CHUNK_VALUE_TYPE_ASYNC_ITERABLE == 1
PROMISE_STATUS_FULFILLED == 0
PROMISE_STATUS_REJECTED == 1
ASYNC_ITERABLE_STATUS_DONE == 0
ASYNC_ITERABLE_STATUS_VALUE == 1
ASYNC_ITERABLE_STATUS_ERROR == 2

\* Bounds of the model
MaxItems == 2       \* longest user sequence
MaxDepthOpt == 2    \* largest opts.maxDepth tried (0 = option absent)

----------------------------------------------------------------------------
\* Values.  A value is a tagged tuple:
\*   <<"prim", p>>               a JSON primitive, named by its JSON text
\*   <<"obj", entries>>          a mapping; entries is Object.entries order
\*   <<"promise", outcome, v>>   a user future: "resolve" to v / "reject" with v
\*   <<"iter", items, end>>      a user lazy sequence yielding items, then
\*                               "done" | "error" | "maxdepth" (the replacement
\*                               iterable whose [Symbol.asyncIterator]() throws)
\*   <<"wrapper", type, id>>     consumer side: what hydrateChunkDefinition returned
\*   <<"dv", payload, descs>>    a dehydrated value [[payload], ...descriptors]
Prim(p) == <<"prim", p>>
Obj(entries) == <<"obj", entries>>
Prom(outcome, v) == <<"promise", outcome, v>>
Iter(items, end) == <<"iter", items, end>>
Wrapper(type, id) == <<"wrapper", type, id>>

placeholder == Prim("0")
NullKey == "<null>"

isPromise(value) == value[1] = "promise"
isAsyncIterable(value) == value[1] = "iter"
isObject(value) == value[1] = "obj"

IsUndefined(v) == v[1] = "prim" /\ v[2] = "undefined"
IsNull(v) == v[1] = "prim" /\ v[2] = "null"

\* JSON.stringify followed by JSON.parse, on a payload: undefined inside an
\* array becomes null, an undefined mapping entry is dropped.
RECURSIVE JsonEntries(_)
JsonEntries(entries) ==
  IF entries = <<>> THEN <<>>
  ELSE LET e == Head(entries)
           rest == JsonEntries(Tail(entries))
       IN IF IsUndefined(e[2]) THEN rest ELSE <<e>> \o rest

JsonPayload(v) ==
  IF IsUndefined(v) THEN Prim("null")
  ELSE IF isObject(v) THEN Obj(JsonEntries(v[2]))
  ELSE v

\* a dehydrated value [[data], ...descriptors]
DV(payload, descs) == <<"dv", payload, descs>>

\* JSON.stringify followed by JSON.parse, on what a chunk carries
JsonValue(v) ==
  IF v[1] = "dv" THEN DV(JsonPayload(v[2]), v[3]) ELSE JsonPayload(v)

\* JSON.stringify(chunk) + '\n' (jsonl.ts:319) as JSON.parse reads it back (jsonl.ts:410)
JsonChunk(chunk) ==
  IF Len(chunk) = 2 THEN chunk ELSE <<chunk[1], chunk[2], JsonValue(chunk[3])>>

\* a line of the wire: the head line or a chunk line
HeadLine(entries) == [kind |-> "head", body |-> entries]
ChunkLine(chunk) == [kind |-> "chunk", body |-> JsonChunk(chunk)]

----------------------------------------------------------------------------
\* Producer: createBatchStreamProducer.  The operators below thread the
\* mutable closure state m = [counter, pending, tasks, alloc] through the
\* synchronous calls, as the code's side effects do.

Mem == [counter |-> counter, pending |-> pending, tasks |-> tasks, alloc |-> alloc]

Task(kind, val, path) ==
  [kind |-> kind, val |-> val, path |-> path,
   pc |-> IF kind = CHUNK_VALUE_TYPE_PROMISE THEN "await" ELSE "loop",
   pos |-> 0, cause |-> "none"]

\* checkMaxDepth(path): whether it returns a MaxDepthError
checkMaxDepth(path) == maxDepth # 0 /\ Len(path) > maxDepth

\* faulty variant: the counter is read but not advanced
NextCounterStuck(c) == c

\* const idx = counter++
NextCounter(c) == c + 1

\* dehydratePromise up to the point where the race is set up: [mem, idx]
dehydratePromise(m, promise, path) ==
  LET p == IF checkMaxDepth(path) THEN Prom("reject", Prim("MaxDepthError")) ELSE promise
      idx == m.counter
  IN [mem |-> [counter |-> NextCounter(m.counter),
               pending |-> m.pending \cup {idx},
               tasks |-> (idx :> Task(CHUNK_VALUE_TYPE_PROMISE, p, path)) @@ m.tasks,
               alloc |-> Append(m.alloc, idx)],
      idx |-> idx]

\* dehydrateAsyncIterable up to run(...): [mem, idx]
dehydrateAsyncIterable(m, iterable, path) ==
  LET it == IF checkMaxDepth(path) THEN Iter(<<>>, "maxdepth") ELSE iterable
      idx == m.counter
  IN [mem |-> [counter |-> NextCounter(m.counter),
               pending |-> m.pending \cup {idx},
               tasks |-> (idx :> Task(CHUNK_VALUE_TYPE_ASYNC_ITERABLE, it, path)) @@ m.tasks,
               alloc |-> Append(m.alloc, idx)],
      idx |-> idx]

\* dehydrateChunk: reg is <<>> for null, else <<type, chunkId>>
dehydrateChunk(m, value, path) ==
  IF isPromise(value)
  THEN LET r == dehydratePromise(m, value, path)
       IN [mem |-> r.mem, reg |-> <<CHUNK_VALUE_TYPE_PROMISE, r.idx>>, threw |-> FALSE]
  ELSE IF isAsyncIterable(value)
  THEN IF maxDepth # 0 /\ Len(path) >= maxDepth
       THEN [mem |-> m, reg |-> <<>>, threw |-> TRUE]
       ELSE LET r == dehydrateAsyncIterable(m, value, path)
            IN [mem |-> r.mem, reg |-> <<CHUNK_VALUE_TYPE_ASYNC_ITERABLE, r.idx>>,
                threw |-> FALSE]
  ELSE [mem |-> m, reg |-> <<>>, threw |-> FALSE]

\* the loop over Object.entries(value) in dehydrate (jsonl.ts:274-282)
RECURSIVE dehydrateEntries(_, _, _, _, _)
dehydrateEntries(m, entries, path, newObj, asyncValues) ==
  IF entries = <<>>
  THEN [mem |-> m, res |-> DV(Obj(newObj), asyncValues), threw |-> FALSE]
  ELSE LET key == Head(entries)[1]
           item == Head(entries)[2]
           t == dehydrateChunk(m, item, Append(path, key))
       IN IF t.threw THEN [mem |-> t.mem, res |-> DV(Obj(newObj), asyncValues), threw |-> TRUE]
          ELSE IF t.reg = <<>>
          THEN dehydrateEntries(t.mem, Tail(entries), path,
                                Append(newObj, <<key, item>>), asyncValues)
          ELSE dehydrateEntries(t.mem, Tail(entries), path,
                                Append(newObj, <<key, placeholder>>),
                                Append(asyncValues, <<key>> \o t.reg))

\* dehydrate(value, path): [mem, res, threw]
dehydrate(m, value, path) ==
  LET r == dehydrateChunk(m, value, path)
  IN IF r.threw THEN [mem |-> r.mem, res |-> DV(placeholder, <<>>), threw |-> TRUE]
     ELSE IF r.reg # <<>>
     THEN [mem |-> r.mem, res |-> DV(placeholder, <<<<NullKey>> \o r.reg>>), threw |-> FALSE]
     ELSE IF ~isObject(value)
     THEN [mem |-> r.mem, res |-> DV(value, <<>>), threw |-> FALSE]
     ELSE dehydrateEntries(r.mem, value[2], path, <<>>, <<>>)

\* the loop over Object.entries(data) (jsonl.ts:286-289): [mem, head, threw]
RECURSIVE dehydrateRoot(_, _, _)
dehydrateRoot(m, entries, newHead) ==
  IF entries = <<>> THEN [mem |-> m, head |-> newHead, threw |-> FALSE]
  ELSE LET key == Head(entries)[1]
           r == dehydrate(m, Head(entries)[2], <<key>>)
       IN IF r.threw THEN [mem |-> r.mem, head |-> newHead, threw |-> TRUE]
          ELSE dehydrateRoot(r.mem, Tail(entries), Append(newHead, <<key, JsonValue(r.res)>>))

\* stream.controller.enqueue(chunk) throws once the stream is closed or cancelled
CanEnqueue == ~closed /\ ~cancelled

\* what the byte stream carries after stream.controller.enqueue(chunk)
Enqueued(chunk) ==
  IF pstate = "running" THEN Append(wire, ChunkLine(chunk)) ELSE wire

\* faulty variant: the stream is closed whatever the pending set holds
maybeCloseEager(pend) == ~cancelled

\* maybeClose(): whether it calls stream.controller.close(), given the pending set
maybeClose(pend) == pend = {} /\ ~cancelled

\* faulty variant: start() enqueues nothing, the head line is lost
TransformStartNoHead(h) == <<>>

\* TransformStream.start (jsonl.ts:315-317): the first line of the byte stream
TransformStart(h) == <<HeadLine(h)>>

\* opts.formatError({error, path}): the wire payload of an error
formatError(cause) == Prim(cause)

----------------------------------------------------------------------------
\* Producer actions

\* jsonlStreamProducer(opts): the synchronous dehydration of the root, then
\* the head line is enqueued by the TransformStream's start().
jsonlStreamProducer ==
  /\ pstate = "init"
  /\ LET r == dehydrateRoot(Mem, data, <<>>)
     IN /\ counter' = r.mem.counter
        /\ pending' = r.mem.pending
        /\ tasks' = r.mem.tasks
        /\ alloc' = r.mem.alloc
        /\ pstate' = IF r.threw THEN "threw" ELSE "running"
        /\ wire' = IF r.threw THEN wire ELSE TransformStart(r.head)
  /\ UNCHANGED <<data, maxDepth, closed, cancelled, errs, unhandled>>
  /\ UNCHANGED cvars
  /\ UNCHANGED fvars
  /\ UNCHANGED order

\* the reader of the outgoing stream cancels it (createReadableStream's cancel())
cancel ==
  /\ pstate = "running"
  /\ ~cancelled
  /\ cancelled' = TRUE
  /\ UNCHANGED <<data, maxDepth, pstate, counter, pending, tasks, alloc, wire, closed,
                 errs, unhandled>>
  /\ UNCHANGED cvars
  /\ UNCHANGED fvars
  /\ UNCHANGED order

\* Promise.race([promise, stream.cancelledPromise]).then(...) (jsonl.ts:146-156)
dehydratePromise_then(id) ==
  /\ tasks[id].kind = CHUNK_VALUE_TYPE_PROMISE
  /\ tasks[id].pc = "await"
  /\ \E won \in {"promise"} \cup (IF cancelled THEN {"cancelled"} ELSE {}) :
       LET t == tasks[id]
           it == IF won = "cancelled" THEN Prim("cancelled") ELSE t.val[3]
           r == dehydrate(Mem, it, t.path)
       IN IF won = "promise" /\ t.val[2] = "reject"
          THEN /\ tasks' = [tasks EXCEPT ![id].pc = "catch", ![id].cause = t.val[3][2]]
               /\ UNCHANGED <<counter, pending, alloc, wire>>
          ELSE IF IsNull(it)
          THEN /\ tasks' = [tasks EXCEPT ![id].pc = "finally"]
               /\ UNCHANGED <<counter, pending, alloc, wire>>
          ELSE /\ counter' = r.mem.counter
               /\ pending' = r.mem.pending
               /\ alloc' = r.mem.alloc
               /\ IF r.threw
                  THEN /\ tasks' = [r.mem.tasks EXCEPT ![id].pc = "catch",
                                                       ![id].cause = "Max depth reached"]
                       /\ wire' = wire
                  ELSE IF ~CanEnqueue
                  THEN /\ tasks' = [r.mem.tasks EXCEPT ![id].pc = "catch",
                                                       ![id].cause = "TypeError"]
                       /\ wire' = wire
                  ELSE /\ tasks' = [r.mem.tasks EXCEPT ![id].pc = "finally"]
                       /\ wire' = Enqueued(<<id, PROMISE_STATUS_FULFILLED, r.res>>)
  /\ UNCHANGED <<data, maxDepth, pstate, closed, cancelled, errs, unhandled>>
  /\ UNCHANGED cvars
  /\ UNCHANGED fvars
  /\ UNCHANGED order

\* .catch((cause) => ...) (jsonl.ts:157-164)
dehydratePromise_catch(id) ==
  /\ tasks[id].kind = CHUNK_VALUE_TYPE_PROMISE
  /\ tasks[id].pc = "catch"
  /\ errs' = errs \cup {<<tasks[id].path, tasks[id].cause>>}
  /\ tasks' = [tasks EXCEPT ![id].pc = "finally"]
  /\ IF CanEnqueue
     THEN /\ wire' = Enqueued(<<id, PROMISE_STATUS_REJECTED, formatError(tasks[id].cause)>>)
          /\ unhandled' = unhandled
     ELSE /\ wire' = wire
          /\ unhandled' = unhandled \cup {id}
  /\ UNCHANGED <<data, maxDepth, pstate, counter, pending, alloc, closed, cancelled>>
  /\ UNCHANGED cvars
  /\ UNCHANGED fvars
  /\ UNCHANGED order

\* .finally(() => { pending.delete(idx); maybeClose(); }) (jsonl.ts:165-168)
dehydratePromise_finally(id) ==
  /\ tasks[id].kind = CHUNK_VALUE_TYPE_PROMISE
  /\ tasks[id].pc = "finally"
  /\ pending' = pending \ {id}
  /\ tasks' = [tasks EXCEPT ![id].pc = "end"]
  /\ IF maybeClose(pending')
     THEN /\ closed' = TRUE
          /\ unhandled' = IF closed THEN unhandled \cup {id} ELSE unhandled
     ELSE UNCHANGED <<closed, unhandled>>
  /\ UNCHANGED <<data, maxDepth, pstate, counter, alloc, wire, cancelled, errs>>
  /\ UNCHANGED cvars
  /\ UNCHANGED fvars
  /\ UNCHANGED order

\* one turn of the while (true) loop of the task run(async () => ...)
\* (jsonl.ts:185-221), from the race to the next await or the task's end
dehydrateAsyncIterable_run(id) ==
  /\ tasks[id].kind = CHUNK_VALUE_TYPE_ASYNC_ITERABLE
  /\ tasks[id].pc = "loop"
  /\ \E won \in {"next"} \cup (IF cancelled THEN {"cancelled"} ELSE {}) :
       LET t == tasks[id]
           items == t.val[2]
           end == t.val[3]
           bug == errs \cup {<<t.path, "You found a bug">>}
           r == dehydrate(Mem, items[t.pos + 1], t.path)
       IN IF end = "maxdepth"
          THEN \* iterable[Symbol.asyncIterator]() throws
               /\ tasks' = [tasks EXCEPT ![id].pc = "crashed"]
               /\ errs' = bug
               /\ UNCHANGED <<counter, pending, alloc, wire, closed>>
          ELSE IF won = "cancelled"
          THEN /\ tasks' = [tasks EXCEPT ![id].pc = "return"]
               /\ UNCHANGED <<counter, pending, alloc, wire, closed, errs>>
          ELSE IF t.pos < Len(items)
          THEN \* next.value
               /\ counter' = r.mem.counter
               /\ pending' = r.mem.pending
               /\ alloc' = r.mem.alloc
               /\ closed' = closed
               /\ IF r.threw \/ ~CanEnqueue
                  THEN /\ tasks' = [r.mem.tasks EXCEPT ![id].pc = "crashed"]
                       /\ errs' = bug
                       /\ wire' = wire
                  ELSE /\ tasks' = [r.mem.tasks EXCEPT ![id].pos = t.pos + 1]
                       /\ errs' = errs
                       /\ wire' = Enqueued(<<id, ASYNC_ITERABLE_STATUS_VALUE, r.res>>)
          ELSE IF end = "error"
          THEN \* next instanceof Error
               /\ UNCHANGED <<counter, pending, alloc, closed>>
               /\ IF CanEnqueue
                  THEN /\ tasks' = [tasks EXCEPT ![id].pc = "returned"]
                       /\ errs' = errs \cup {<<t.path, "iteration error">>}
                       /\ wire' = Enqueued(<<id, ASYNC_ITERABLE_STATUS_ERROR,
                                             formatError("iteration error")>>)
                  ELSE /\ tasks' = [tasks EXCEPT ![id].pc = "crashed"]
                       /\ errs' = bug \cup {<<t.path, "iteration error">>}
                       /\ wire' = wire
          ELSE \* next.done
               /\ UNCHANGED <<counter, alloc>>
               /\ IF CanEnqueue
                  THEN /\ tasks' = [tasks EXCEPT ![id].pc = "end"]
                       /\ errs' = errs
                       /\ wire' = Enqueued(<<id, ASYNC_ITERABLE_STATUS_DONE>>)
                       /\ pending' = pending \ {id}
                       /\ closed' = maybeClose(pending')
                  ELSE /\ tasks' = [tasks EXCEPT ![id].pc = "crashed"]
                       /\ errs' = bug
                       /\ UNCHANGED <<wire, pending, closed>>
  /\ UNCHANGED <<data, maxDepth, pstate, cancelled, unhandled>>
  /\ UNCHANGED cvars
  /\ UNCHANGED fvars
  /\ UNCHANGED order

\* next === 'cancelled': after await iterator.return?.(), break; then
\* pending.delete(idx); maybeClose() (jsonl.ts:204-207, 219-220)
dehydrateAsyncIterable_cancelled(id) ==
  /\ tasks[id].kind = CHUNK_VALUE_TYPE_ASYNC_ITERABLE
  /\ tasks[id].pc = "return"
  /\ tasks' = [tasks EXCEPT ![id].pc = "end"]
  /\ pending' = pending \ {id}
  /\ closed' = (closed \/ maybeClose(pending'))
  /\ UNCHANGED <<data, maxDepth, pstate, counter, alloc, wire, cancelled, errs, unhandled>>
  /\ UNCHANGED cvars
  /\ UNCHANGED fvars
  /\ UNCHANGED order

----------------------------------------------------------------------------
\* Consumer: jsonlStreamConsumer.  The operators thread the closure state
\* c = [controllers, chunkDeferred, sub, wrappers, writer].

CMem == [controllers |-> controllers, chunkDeferred |-> chunkDeferred, sub |-> sub,
         wrappers |-> wrappers, writer |-> writer]

Idle == [st |-> "idle", idx |-> -1, chunk |-> <<>>]

\* items of a sub-stream: a chunk, or the StreamInterruptedError closeOrAbort enqueues
ChunkItem(chunk) == [k |-> "chunk", c |-> chunk]
Sentinel == [k |-> "sentinel", c |-> <<>>]

\* errors a wrapper settles with
Err(kind, payload) == <<"error", kind, payload>>

\* faulty variant: the controller is installed but a waiting chunkDeferred is
\* neither resolved nor deleted
hydrateChunkDefinitionNoResolve(c, desc) ==
  LET type == desc[2]
      chunkId == desc[3]
  IN [controllers |-> c.controllers \cup {chunkId},
      chunkDeferred |-> c.chunkDeferred,
      sub |-> (chunkId :> [q |-> <<>>, closed |-> FALSE, hist |-> <<>>]) @@ c.sub,
      wrappers |-> (chunkId :> [type |-> type, st |-> "pending", res |-> Prim("none"),
                                yielded |-> <<>>]) @@ c.wrappers,
      writer |-> c.writer]

\* hydrateChunkDefinition(value) up to the switch: the controller is installed,
\* a waiting chunkDeferred is resolved, and the wrapper starts out unsettled
hydrateChunkDefinition(c, desc) ==
  LET type == desc[2]
      chunkId == desc[3]
  IN [controllers |-> c.controllers \cup {chunkId},
      chunkDeferred |-> c.chunkDeferred \ {chunkId},
      sub |-> (chunkId :> [q |-> <<>>, closed |-> FALSE, hist |-> <<>>]) @@ c.sub,
      wrappers |-> (chunkId :> [type |-> type, st |-> "pending", res |-> Prim("none"),
                                yielded |-> <<>>]) @@ c.wrappers,
      writer |-> IF chunkId \in c.chunkDeferred /\ c.writer.st = "await"
                    /\ c.writer.idx = chunkId
                 THEN [c.writer EXCEPT !.st = "resolved"]
                 ELSE c.writer]

\* (data as any)[path] = hydrated
SetEntry(payload, key, hydrated) ==
  IF ~isObject(payload) THEN payload
  ELSE IF \E i \in 1..Len(payload[2]) : payload[2][i][1] = key
  THEN Obj([i \in 1..Len(payload[2]) |->
             IF payload[2][i][1] = key THEN <<key, hydrated>> ELSE payload[2][i]])
  ELSE Obj(Append(payload[2], <<key, hydrated>>))

\* the loop over asyncProps in hydrate (jsonl.ts:534-543)
RECURSIVE hydrateProps(_, _, _)
hydrateProps(c, payload, asyncProps) ==
  IF asyncProps = <<>> THEN [mem |-> c, res |-> payload]
  ELSE LET desc == Head(asyncProps)
           c2 == hydrateChunkDefinition(c, desc)
           hydrated == Wrapper(desc[2], desc[3])
       IN IF desc[1] = NullKey THEN [mem |-> c2, res |-> hydrated]
          ELSE hydrateProps(c2, SetEntry(payload, desc[1], hydrated), Tail(asyncProps))

\* hydrate(value): [mem, res, threw]; it throws on what is no dehydrated value
hydrate(c, value) ==
  IF value[1] # "dv" THEN [mem |-> c, res |-> Prim("none"), threw |-> TRUE]
  ELSE LET r == hydrateProps(c, value[2], value[3])
       IN [mem |-> r.mem, res |-> r.res, threw |-> FALSE]

\* the loop over Object.entries(chunkOrHead) in write (jsonl.ts:568-571)
RECURSIVE hydrateHead(_, _, _)
hydrateHead(c, entries, out) ==
  IF entries = <<>> THEN [mem |-> c, res |-> out, threw |-> FALSE]
  ELSE LET r == hydrate(c, Head(entries)[2])
       IN IF r.threw THEN [mem |-> r.mem, res |-> out, threw |-> TRUE]
          ELSE hydrateHead(r.mem, Tail(entries), Append(out, <<Head(entries)[1], r.res>>))

\* faulty variant: the sub-stream hands out the newest item first
SubEnqueueFront(s, id, item) ==
  [s EXCEPT ![id].q = <<item>> \o @, ![id].hist = Append(@, item.c)]

\* faulty variant: every chunk is routed to chunk-id 0
ChunkIdxZero(chunk) == 0

\* controller.enqueue(item) on the sub-stream of id
SubEnqueue(s, id, item) ==
  [s EXCEPT ![id].q = Append(@, item), ![id].hist = Append(@, item.c)]

\* const [idx] = chunk (jsonl.ts:577)
ChunkIdx(chunk) == chunk[1]

\* faulty variant: the StreamInterruptedError overtakes what the sub-stream holds
closeOrAbortSubsFront(s, ctl) ==
  [id \in DOMAIN s |->
     IF id \in ctl THEN [s[id] EXCEPT !.q = <<Sentinel>> \o @, !.closed = TRUE]
     ELSE s[id]]

\* closeOrAbort (jsonl.ts:547-560): the sub-streams after the loop over controllers
closeOrAbortSubs(s, ctl) ==
  [id \in DOMAIN s |->
     IF id \in ctl THEN [s[id] EXCEPT !.q = Append(@, Sentinel), !.closed = TRUE]
     ELSE s[id]]

\* a promise wrapper whose read() has a chunk to deliver: its then-callback is a
\* promise reaction already queued, so it runs before the sink is closed or aborted
PromiseReactionQueued ==
  \E id \in DOMAIN wrappers :
     /\ wrappers[id].type = CHUNK_VALUE_TYPE_PROMISE
     /\ wrappers[id].st = "pending"
     /\ sub[id].q # <<>>

closeOrAbort(how) ==
  /\ pstate = "running"
  /\ sink = "open"
  /\ writer.st = "idle"
  /\ ~PromiseReactionQueued
  /\ sink' = how
  /\ headDeferred' = IF headDeferred = "pending" THEN "rejected" ELSE headDeferred
  /\ chunkDeferred' = {}
  /\ sub' = closeOrAbortSubs(sub, controllers)
  /\ controllers' = {}
  /\ UNCHANGED <<head, wrappers, writer, rd>>
  /\ UNCHANGED pvars
  /\ UNCHANGED fvars
  /\ UNCHANGED order

\* the sink's close: the byte stream ended after its last line was written
sink_close ==
  /\ closed
  /\ rd = Len(wire)
  /\ closeOrAbort("closed")

\* the sink's abort, or pipeTo's catch: the byte stream was cut or errored
sink_abort ==
  /\ ~(closed /\ rd = Len(wire))
  /\ closeOrAbort("aborted")

\* the sink's write(chunkOrHead) (jsonl.ts:564-589) up to its return or its await
write ==
  /\ pstate = "running"
  /\ sink = "open"
  /\ writer.st = "idle"
  /\ rd < Len(wire)
  /\ rd' = rd + 1
  /\ LET line == wire[rd + 1]
         r == hydrateHead(CMem, line.body, <<>>)
         idx == ChunkIdx(line.body)
     IN IF headDeferred = "pending"
        THEN IF line.kind # "head" \/ r.threw
             THEN \* write throws: pipeTo rejects and its catch runs closeOrAbort
                  /\ sink' = "aborted"
                  /\ headDeferred' = "rejected"
                  /\ chunkDeferred' = {}
                  /\ sub' = closeOrAbortSubs(sub, controllers)
                  /\ controllers' = {}
                  /\ UNCHANGED <<head, wrappers, writer>>
             ELSE /\ head' = r.res
                  /\ headDeferred' = "null"
                  /\ controllers' = r.mem.controllers
                  /\ chunkDeferred' = r.mem.chunkDeferred
                  /\ sub' = r.mem.sub
                  /\ wrappers' = r.mem.wrappers
                  /\ writer' = r.mem.writer
                  /\ sink' = sink
        ELSE IF line.kind # "chunk"
        THEN /\ sink' = "aborted"
             /\ chunkDeferred' = {}
             /\ sub' = closeOrAbortSubs(sub, controllers)
             /\ controllers' = {}
             /\ UNCHANGED <<head, headDeferred, wrappers, writer>>
        ELSE IF idx \in controllers
        THEN /\ sub' = SubEnqueue(sub, idx, ChunkItem(line.body))
             /\ UNCHANGED <<head, headDeferred, controllers, chunkDeferred, wrappers,
                            writer, sink>>
        ELSE /\ chunkDeferred' = chunkDeferred \cup {idx}
             /\ writer' = [st |-> "await", idx |-> idx, chunk |-> line.body]
             /\ UNCHANGED <<head, headDeferred, controllers, sub, wrappers, sink>>
  /\ UNCHANGED pvars
  /\ UNCHANGED fvars
  /\ UNCHANGED order

\* write resumes after controller = await deferred.promise (jsonl.ts:586-588)
write_resume ==
  /\ writer.st = "resolved"
  /\ sub' = SubEnqueue(sub, writer.idx, ChunkItem(writer.chunk))
  /\ writer' = Idle
  /\ UNCHANGED <<headDeferred, head, controllers, chunkDeferred, wrappers, rd, sink>>
  /\ UNCHANGED pvars
  /\ UNCHANGED fvars
  /\ UNCHANGED order

\* the future wrapper: reader.read().then(...).catch(reject).finally(...)
\* (jsonl.ts:462-494), run when the sub-stream has something to deliver
hydratePromise_read(id) ==
  /\ wrappers[id].type = CHUNK_VALUE_TYPE_PROMISE
  /\ wrappers[id].st = "pending"
  /\ sub[id].q # <<>> \/ sub[id].closed
  /\ LET done == sub[id].q = <<>>
         it == Head(sub[id].q)
         chunk == it.c
         status == chunk[2]
         c0 == [CMem EXCEPT !.sub[id].q = IF done THEN <<>> ELSE Tail(sub[id].q)]
         r == hydrate(c0, chunk[3])
         settle(c, st, res) ==
           /\ controllers' = c.controllers \ {id}
           /\ chunkDeferred' = c.chunkDeferred
           /\ sub' = c.sub
           /\ writer' = c.writer
           /\ wrappers' = [c.wrappers EXCEPT ![id].st = st, ![id].res = res]
     IN IF done
        THEN settle(c0, "rejected", Err("Error", Prim("Promise chunk ended without value")))
        ELSE IF it.k = "sentinel"
        THEN settle(c0, "rejected", Err("StreamInterruptedError", Prim("none")))
        ELSE IF status = PROMISE_STATUS_FULFILLED
        THEN IF Len(chunk) < 3 \/ r.threw
             THEN settle(c0, "rejected", Err("TypeError", Prim("none")))
             ELSE settle(r.mem, "resolved", r.res)
        ELSE IF status = PROMISE_STATUS_REJECTED
        THEN settle(c0, "rejected", Err("AsyncError", chunk[3]))
        ELSE \* no case of the switch: the future is never settled
             settle(c0, "hung", Prim("none"))
  /\ UNCHANGED <<headDeferred, head, rd, sink>>
  /\ UNCHANGED pvars
  /\ UNCHANGED fvars
  /\ UNCHANGED order

\* the sequence wrapper: one next() of the async generator (jsonl.ts:498-525),
\* from reader.read() to the yield, return or throw
hydrateAsyncIterable_next(id) ==
  /\ wrappers[id].type = CHUNK_VALUE_TYPE_ASYNC_ITERABLE
  /\ wrappers[id].st = "pending"
  /\ sub[id].q # <<>> \/ sub[id].closed
  /\ LET done == sub[id].q = <<>>
         it == Head(sub[id].q)
         chunk == it.c
         status == chunk[2]
         c0 == [CMem EXCEPT !.sub[id].q = IF done THEN <<>> ELSE Tail(sub[id].q)]
         r == hydrate(c0, chunk[3])
         step(c, ctl, st, res, ys) ==
           /\ controllers' = ctl
           /\ chunkDeferred' = c.chunkDeferred
           /\ sub' = c.sub
           /\ writer' = c.writer
           /\ wrappers' = [c.wrappers EXCEPT ![id].st = st, ![id].res = res,
                                             ![id].yielded = ys]
         ys0 == wrappers[id].yielded
     IN IF done
        THEN step(c0, controllers, "done", Prim("none"), ys0)
        ELSE IF it.k = "sentinel"
        THEN step(c0, controllers, "threw", Err("StreamInterruptedError", Prim("none")), ys0)
        ELSE IF status = ASYNC_ITERABLE_STATUS_VALUE
        THEN IF Len(chunk) < 3 \/ r.threw
             THEN step(c0, controllers, "threw", Err("TypeError", Prim("none")), ys0)
             ELSE step(r.mem, r.mem.controllers, "pending", Prim("none"),
                       Append(ys0, r.res))
        ELSE IF status = ASYNC_ITERABLE_STATUS_DONE
        THEN step(c0, controllers \ {id}, "done", Prim("none"), ys0)
        ELSE IF status = ASYNC_ITERABLE_STATUS_ERROR
        THEN step(c0, controllers \ {id}, "threw", Err("AsyncError", chunk[3]), ys0)
        ELSE \* no case of the switch: the loop reads again
             step(c0, controllers, "pending", Prim("none"), ys0)
  /\ UNCHANGED <<headDeferred, head, rd, sink>>
  /\ UNCHANGED pvars
  /\ UNCHANGED fvars
  /\ UNCHANGED order

----------------------------------------------------------------------------
\* Line framer: createLineAccumulator (jsonl.ts:358-395).  A text is a
\* sequence of characters; NL is '\n'.

NL == "\n"

\* faulty variant: the unfinished line is thrown away after every chunk
PartsPopEmpty(parts) == <<>>

\* lineAggregate.split('\n'): the segments between the newlines, one more
\* than there are newlines
RECURSIVE Split(_)
Split(text) ==
  IF \A i \in 1..Len(text) : text[i] # NL THEN <<text>>
  ELSE LET i == CHOOSE k \in 1..Len(text) :
                  text[k] = NL /\ \A j \in 1..(k - 1) : text[j] # NL
       IN <<SubSeq(text, 1, i - 1)>> \o Split(SubSeq(text, i + 1, Len(text)))

\* parts.pop() ?? ''
PartsPop(parts) == IF parts = <<>> THEN <<>> ELSE parts[Len(parts)]

\* the framer before it has been given anything
FramerIdle ==
  /\ source = <<>>
  /\ taken = 0
  /\ lineAggregate = <<>>
  /\ lines = <<>>
  /\ ended = FALSE

\* transform(chunk, controller) (jsonl.ts:385-392) on the next chunk of the input
transform ==
  /\ ~ended
  /\ taken < Len(source)
  /\ LET chunk == source[taken + 1]
         parts == Split(lineAggregate \o chunk)
     IN /\ lineAggregate' = PartsPop(parts)
        /\ lines' = lines \o SubSeq(parts, 1, Len(parts) - 1)
  /\ taken' = taken + 1
  /\ UNCHANGED <<source, ended>>
  /\ UNCHANGED pvars
  /\ UNCHANGED cvars
  /\ UNCHANGED order

\* the input ends: pull() closes the stream (jsonl.ts:372-373); the
\* TransformStream has no flush(), so nothing more is enqueued
framer_close ==
  /\ ~ended
  /\ taken = Len(source)
  /\ ended' = TRUE
  /\ UNCHANGED <<source, taken, lineAggregate, lines>>
  /\ UNCHANGED pvars
  /\ UNCHANGED cvars
  /\ UNCHANGED order

----------------------------------------------------------------------------
\* Inputs

\* JSON values a leaf resolves to or yields
Prims == {Prim("null"), Prim("false"), Prim("0"), Prim(""), Prim("7"), Prim("undefined")}
Plain == Prims \cup {Obj(<<>>), Obj(<<<<"y", Prim("0")>>>>), Obj(<<<<"y", Prim("undefined")>>>>)}

SeqsUpTo(S, n) == UNION {[1..k -> S] : k \in 0..n}

\* deferred leaves whose values hold no further deferred leaf
ItemVals == {Prim("null"), Prim("7")}
Leaves0 ==
  {Prom("resolve", v) : v \in Plain} \cup {Prom("reject", Prim("boom"))}
  \cup {Iter(items, end) : items \in SeqsUpTo(ItemVals, MaxItems), end \in {"done", "error"}}

\* deferred leaves one level up: their value holds a deferred leaf
Inner == {Prom("resolve", Prim("9")), Prom("resolve", Prim("null")),
          Prom("reject", Prim("boom")),
          Iter(<<Prim("7")>>, "done")}
Nested == {Obj(<<<<"y", l>>>>) : l \in Inner}
            \cup {Obj(<<<<"x", Prim("7")>>, <<"y", Prom("resolve", Prim("9"))>>,
                        <<"z", Iter(<<>>, "done")>>>>)}
Leaves1 ==
  {Prom("resolve", v) : v \in Nested \cup {Iter(<<Prim("7")>>, "done")}}
  \cup {Iter(<<v>>, "done") : v \in Nested}

\* two deferred root fields running side by side
First == {Prom("resolve", Prim("1")), Prom("resolve", Prim("null")),
          Iter(<<Prim("7"), Prim("null")>>, "done"), Iter(<<Prim("7")>>, "error"),
          Prom("resolve", Obj(<<<<"y", Prom("resolve", Prim("9"))>>>>)),
          Iter(<<Obj(<<<<"y", Prom("resolve", Prim("9"))>>>>)>>, "done")}
Second == {Prom("resolve", Prim("2")), Prom("reject", Prim("boom")),
           Iter(<<Prim("1")>>, "done")}

Roots1 == {<<>>} \cup {<<<<"a", v>>>> : v \in Plain \cup Leaves0 \cup Leaves1}
Roots2 == {<<<<"a", v>>, <<"b", w>>>> : v \in First, w \in Second}

\* opts.data with opts.maxDepth
Inputs == (Roots1 \X (0..MaxDepthOpt)) \cup (Roots2 \X {0})

Init ==
  /\ \E inp \in Inputs : data = inp[1] /\ maxDepth = inp[2]
  /\ pstate = "init"
  /\ counter = 0
  /\ pending = {}
  /\ tasks = <<>>
  /\ alloc = <<>>
  /\ wire = <<>>
  /\ closed = FALSE
  /\ cancelled = FALSE
  /\ errs = {}
  /\ unhandled = {}
  /\ headDeferred = "pending"
  /\ head = <<>>
  /\ controllers = {}
  /\ chunkDeferred = {}
  /\ sub = <<>>
  /\ wrappers = <<>>
  /\ writer = Idle
  /\ rd = 0
  /\ sink = "open"
  /\ FramerIdle
  /\ order = <<>>

Next ==
  \/ jsonlStreamProducer
  \/ cancel
  \/ \E id \in DOMAIN tasks : dehydratePromise_then(id)
  \/ \E id \in DOMAIN tasks : dehydratePromise_catch(id)
  \/ \E id \in DOMAIN tasks : dehydratePromise_finally(id)
  \/ \E id \in DOMAIN tasks : dehydrateAsyncIterable_run(id)
  \/ \E id \in DOMAIN tasks : dehydrateAsyncIterable_cancelled(id)
  \/ write
  \/ write_resume
  \/ sink_close
  \/ sink_abort
  \/ \E id \in DOMAIN wrappers : hydratePromise_read(id)
  \/ \E id \in DOMAIN wrappers : hydrateAsyncIterable_next(id)

Spec == Init /\ [][Next]_vars

----------------------------------------------------------------------------
\* The consumer alone, fed by a peer that need not be this producer: opts.from
\* carries a head line and then any chunk lines, status codes the protocol
\* does not define included.

MaxPeerLines == 2   \* most chunk lines the peer sends
MaxStatus == 3      \* largest status code the peer sends (ERROR = 2 is the largest defined)

\* head lines: one root field holding a future or a lazy sequence, chunk-id 0
PeerHeads ==
  {<<<<"a", DV(placeholder, <<<<NullKey, t, 0>>>>)>>>> :
     t \in {CHUNK_VALUE_TYPE_PROMISE, CHUNK_VALUE_TYPE_ASYNC_ITERABLE}}

\* chunk lines as JSON.parse(line) returns them (jsonl.ts:410)
PeerChunks ==
  {<<id, s, DV(Prim("7"), <<>>)>> : id \in 0..1, s \in 0..MaxStatus}
  \cup {<<0, s, DV(Obj(<<<<"y", placeholder>>>>), <<<<"y", CHUNK_VALUE_TYPE_PROMISE, 1>>>>)>> :
          s \in {PROMISE_STATUS_FULFILLED, ASYNC_ITERABLE_STATUS_VALUE}}
  \cup {<<0, ASYNC_ITERABLE_STATUS_DONE>>}

PeerWires ==
  {<<HeadLine(h)>> \o [i \in 1..Len(cs) |-> [kind |-> "chunk", body |-> cs[i]]] :
     h \in PeerHeads, cs \in SeqsUpTo(PeerChunks, MaxPeerLines)}

\* jsonlStreamConsumer({from}) called on a byte stream that ends after its last line
ConsumerInit ==
  /\ wire \in PeerWires
  /\ data = <<>>
  /\ maxDepth = 0
  /\ pstate = "running"
  /\ counter = 0
  /\ pending = {}
  /\ tasks = <<>>
  /\ alloc = <<>>
  /\ closed = TRUE
  /\ cancelled = FALSE
  /\ errs = {}
  /\ unhandled = {}
  /\ headDeferred = "pending"
  /\ head = <<>>
  /\ controllers = {}
  /\ chunkDeferred = {}
  /\ sub = <<>>
  /\ wrappers = <<>>
  /\ writer = Idle
  /\ rd = 0
  /\ sink = "open"
  /\ FramerIdle
  /\ order = <<>>

ConsumerNext ==
  \/ write
  \/ write_resume
  \/ sink_close
  \/ sink_abort
  \/ \E id \in DOMAIN wrappers : hydratePromise_read(id)
  \/ \E id \in DOMAIN wrappers : hydrateAsyncIterable_next(id)

ConsumerSpec == ConsumerInit /\ [][ConsumerNext]_vars

----------------------------------------------------------------------------
\* The line framer alone, given any text cut into chunks in any way.

MaxChunks == 2     \* most chunks the framer's reader delivers
MaxChunkLen == 3   \* most characters in one chunk

\* the chunks TextDecoderStream hands to transform()
TextChunks == SeqsUpTo({"a", NL}, MaxChunkLen)

FramerInit ==
  /\ source \in SeqsUpTo(TextChunks, MaxChunks)
  /\ taken = 0
  /\ lineAggregate = <<>>
  /\ lines = <<>>
  /\ ended = FALSE
  /\ data = <<>>
  /\ maxDepth = 0
  /\ pstate = "init"
  /\ counter = 0
  /\ pending = {}
  /\ tasks = <<>>
  /\ alloc = <<>>
  /\ wire = <<>>
  /\ closed = FALSE
  /\ cancelled = FALSE
  /\ errs = {}
  /\ unhandled = {}
  /\ headDeferred = "pending"
  /\ head = <<>>
  /\ controllers = {}
  /\ chunkDeferred = {}
  /\ sub = <<>>
  /\ wrappers = <<>>
  /\ writer = Idle
  /\ rd = 0
  /\ sink = "open"
  /\ order = <<>>

FramerNext ==
  \/ transform
  \/ framer_close

FramerSpec == FramerInit /\ [][FramerNext]_vars

----------------------------------------------------------------------------
\* Producer and consumer over a byte stream that is neither cancelled nor
\* cut, with user code that awaits the leaves of the head one after another
\* in an order it chooses: a future wrapper reads its sub-stream by itself
\* (jsonl.ts:464-466), a lazy sequence reads only when the user iterates it
\* (jsonl.ts:498-501).

\* the root keys holding a future or a lazy sequence
DeferredKeys ==
  {data[e][1] : e \in {i \in 1..Len(data) :
                         isPromise(data[i][2]) \/ isAsyncIterable(data[i][2])}}

\* the orders in which the user code may await the leaves of the head
Orders ==
  {o \in [1..Cardinality(DeferredKeys) -> DeferredKeys] :
     \A i, j \in DOMAIN o : o[i] = o[j] => i = j}

\* the chunk-ids of the wrappers the head holds
RootIds ==
  {head[i][2][3] : i \in {e \in 1..Len(head) : head[e][2][1] = "wrapper"}}

\* the chunk-id of the wrapper the head holds under key
RootId(key) ==
  LET i == CHOOSE e \in 1..Len(head) : head[e][1] = key IN head[i][2][3]

\* the leaf the user code is awaiting now: the first of its order that is
\* unsettled; -1 before the head has arrived and after the last one
AwaitedId ==
  LET todo == {k \in 1..Len(order) :
                 /\ \E e \in 1..Len(head) : head[e][1] = order[k]
                 /\ wrappers[RootId(order[k])].st = "pending"}
  IN IF headDeferred # "null" \/ todo = {} THEN -1
     ELSE RootId(order[CHOOSE k \in todo : \A l \in todo : k <= l])

\* the user code calls next() on the sequence it is awaiting, or on one it
\* found inside a value it has already been given
await_next(id) ==
  /\ id \notin RootIds \/ id = AwaitedId
  /\ hydrateAsyncIterable_next(id)

ProgressInit ==
  /\ \E inp \in Inputs : data = inp[1] /\ maxDepth = inp[2] /\ inp[2] = 0
  /\ order \in Orders
  /\ pstate = "init"
  /\ counter = 0
  /\ pending = {}
  /\ tasks = <<>>
  /\ alloc = <<>>
  /\ wire = <<>>
  /\ closed = FALSE
  /\ cancelled = FALSE
  /\ errs = {}
  /\ unhandled = {}
  /\ headDeferred = "pending"
  /\ head = <<>>
  /\ controllers = {}
  /\ chunkDeferred = {}
  /\ sub = <<>>
  /\ wrappers = <<>>
  /\ writer = Idle
  /\ rd = 0
  /\ sink = "open"
  /\ FramerIdle

ProgressNext ==
  \/ jsonlStreamProducer
  \/ \E id \in DOMAIN tasks : dehydratePromise_then(id)
  \/ \E id \in DOMAIN tasks : dehydratePromise_catch(id)
  \/ \E id \in DOMAIN tasks : dehydratePromise_finally(id)
  \/ \E id \in DOMAIN tasks : dehydrateAsyncIterable_run(id)
  \/ write
  \/ write_resume
  \/ sink_close
  \/ \E id \in DOMAIN wrappers : hydratePromise_read(id)
  \/ \E id \in DOMAIN wrappers : await_next(id)

\* the event loop runs a callback that is ready to run
ProgressSpec == ProgressInit /\ [][ProgressNext]_vars /\ WF_vars(ProgressNext)

----------------------------------------------------------------------------
\* Vocabulary of the properties

\* the task of leaf id has run to its end: nothing of it will run again
TaskOver(id) == tasks[id].pc \in {"end", "returned", "crashed"}

\* positions of the wire holding a chunk line of id
ChunkPositions(id) ==
  {i \in 1..Len(wire) : wire[i].kind = "chunk" /\ wire[i].body[1] = id}

\* FULFILLED/REJECTED for a future, DONE/ERROR for a sequence
IsTerminal(kind, chunk) ==
  kind = CHUNK_VALUE_TYPE_PROMISE \/ chunk[2] # ASYNC_ITERABLE_STATUS_VALUE

TerminalPositions(id) ==
  {i \in ChunkPositions(id) : IsTerminal(tasks[id].kind, wire[i].body)}

\* a value JSON carries unchanged: a primitive, or a mapping of primitives
IsJson(v) ==
  \/ v[1] = "prim" /\ v[2] # "undefined"
  \/ /\ v[1] = "obj"
     /\ \A i \in 1..Len(v[2]) : v[2][i][2][1] = "prim" /\ v[2][i][2][2] # "undefined"

DeepEqual(x, y) == x[1] = y[1] /\ x = y

\* the chunks whose write() has completed, in the order of the wire
Delivered ==
  LET n == (IF writer.st = "idle" THEN rd ELSE rd - 1) - 1
  IN [i \in 1..n |-> wire[i + 1].body]

\* the chunk-ids the descriptors of a line refer to
DescIds(dv) == IF dv[1] = "dv" THEN {dv[3][i][3] : i \in 1..Len(dv[3])} ELSE {}
LineRefs(line) ==
  IF line.kind = "head"
  THEN UNION {DescIds(line.body[i][2]) : i \in 1..Len(line.body)}
  ELSE IF Len(line.body) = 3 THEN DescIds(line.body[3]) ELSE {}

----------------------------------------------------------------------------
\* C1: every allocated chunk-id whose leaf has settled or terminated, on a
\* stream that was never cancelled, has exactly one terminal chunk on the
\* wire, and no chunk of that id follows it.
C1_ExactlyOneTerminal ==
  (pstate = "running" /\ ~cancelled) =>
    \A id \in DOMAIN tasks :
      /\ TaskOver(id) => Cardinality(TerminalPositions(id)) = 1
      /\ \A i \in TerminalPositions(id) : \A j \in ChunkPositions(id) : j <= i

\* C2: once the root has been dehydrated, the stream is not cancelled and
\* every leaf has settled or terminated, the pending set is empty and
\* stream.controller.close() has been called.
C2_StreamClosed ==
  (pstate = "running" /\ ~cancelled /\ \A id \in DOMAIN tasks : TaskOver(id)) =>
    (pending = {} /\ closed)

\* C3: in every quiescent state (no leaf task still running) the pending set
\* holds no id whose terminal chunk has been enqueued.
C3_PendingBookkeeping ==
  (\A id \in DOMAIN tasks : TaskOver(id)) =>
    \A id \in pending : TerminalPositions(id) = {}

\* C4: the byte stream of a producer that returned starts with its one head
\* line and every later line is a chunk; the consumer takes the first line it
\* is given as the head and routes only later lines to sub-streams.
C4_HeadFirst ==
  /\ pstate # "running" => wire = <<>>
  /\ pstate = "running" =>
       /\ Len(wire) >= 1
       /\ wire[1].kind = "head"
       /\ \A i \in 2..Len(wire) : wire[i].kind = "chunk"
  /\ rd = 0 => headDeferred # "null" /\ DOMAIN wrappers = {}
  /\ rd >= 1 =>
       /\ headDeferred = "null"
       /\ Len(head) = Len(wire[1].body)
       /\ \A i \in 1..Len(head) : head[i][1] = wire[1].body[i][1]
  /\ \A id \in DOMAIN sub : \A k \in 1..Len(sub[id].hist) :
       \E i \in 2..rd : wire[i].body = sub[id].hist[k]

C4_Witness ==
  /\ pstate = "running"
  /\ Len(wire) >= 3
  /\ rd >= 3
  /\ headDeferred = "null"
  /\ \E id \in DOMAIN sub : sub[id].hist # <<>>

\* C5: the k-th deferred leaf allocated in a stream gets chunk-id k-1, at any
\* nesting level and of either kind, so no id is given to two leaves.
C5_IdsFromCounter ==
  /\ \A k \in 1..Len(alloc) : alloc[k] = k - 1
  /\ counter = Len(alloc)
  /\ DOMAIN tasks = 0..(counter - 1)

C5_Witness ==
  /\ Len(alloc) >= 3
  /\ \E i, j \in DOMAIN tasks :
       /\ tasks[i].kind = CHUNK_VALUE_TYPE_PROMISE
       /\ tasks[j].kind = CHUNK_VALUE_TYPE_ASYNC_ITERABLE
       /\ Len(tasks[j].path) = 2

\* C6: a root field holding a future that resolves to a JSON value v gives,
\* on a consumer fed the whole byte stream up to its clean end, a future that
\* resolves to a value deep-equal to v.
C6_FutureRoundTrip ==
  sink = "closed" =>
    \A id \in DOMAIN tasks \cap DOMAIN wrappers :
      ( /\ tasks[id].kind = CHUNK_VALUE_TYPE_PROMISE
        /\ Len(tasks[id].path) = 1
        /\ tasks[id].val[2] = "resolve"
        /\ IsJson(tasks[id].val[3])
        /\ wrappers[id].st # "pending" )
      => /\ wrappers[id].st = "resolved"
         /\ DeepEqual(wrappers[id].res, tasks[id].val[3])

\* C7: a root field holding a lazy sequence that yields JSON values v1..vn
\* and finishes gives a consumer sequence that yields values deep-equal to
\* v1..vn in that order; once the whole byte stream has been fed up to its
\* clean end the sequence never throws, and what it has not yet yielded waits
\* in its sub-stream in order, followed by DONE, so that it terminates
\* normally with all n values yielded.
IsRootSequence(id) ==
  /\ tasks[id].kind = CHUNK_VALUE_TYPE_ASYNC_ITERABLE
  /\ Len(tasks[id].path) = 1
  /\ tasks[id].val[3] = "done"
  /\ \A k \in 1..Len(tasks[id].val[2]) : IsJson(tasks[id].val[2][k])

C7_SequenceRoundTrip ==
  \A id \in DOMAIN tasks \cap DOMAIN wrappers :
    IsRootSequence(id) =>
      LET items == tasks[id].val[2]
          ys == wrappers[id].yielded
      IN /\ Len(ys) <= Len(items)
         /\ \A k \in 1..Len(ys) : DeepEqual(ys[k], items[k])
         /\ wrappers[id].st = "done" => Len(ys) = Len(items)
         /\ sink = "closed" =>
              /\ wrappers[id].st # "threw"
              /\ wrappers[id].st = "pending" =>
                   \* what is left to read: the remaining values, then DONE
                   /\ Len(sub[id].q) >= Len(items) - Len(ys) + 1
                   /\ \A k \in 1..(Len(items) - Len(ys)) :
                        /\ sub[id].q[k].k = "chunk"
                        /\ sub[id].q[k].c[2] = ASYNC_ITERABLE_STATUS_VALUE
                        /\ DeepEqual(sub[id].q[k].c[3][2], items[Len(ys) + k])
                   /\ sub[id].q[Len(items) - Len(ys) + 1].k = "chunk"
                   /\ sub[id].q[Len(items) - Len(ys) + 1].c[2] = ASYNC_ITERABLE_STATUS_DONE

\* a two-valued sequence read to its end, its chunks interleaved on the wire
\* with the chunk of another id
C7_Witness ==
  \E id \in DOMAIN tasks \cap DOMAIN wrappers :
    /\ IsRootSequence(id)
    /\ sink = "closed"
    /\ wrappers[id].st = "done"
    /\ Len(wrappers[id].yielded) = 2
    /\ \E i, j, k \in 2..Len(wire) :
         /\ i < j /\ j < k
         /\ wire[i].body[1] = id /\ wire[k].body[1] = id
         /\ wire[j].body[1] # id

\* C8: a producer future resolving to a mapping with an entry that is itself
\* a future resolving to w: the outer FULFILLED chunk carries a descriptor with
\* a fresh chunk-id for the entry, and once the whole byte stream has been fed
\* the outer consumer future has resolved to a mapping whose entry is a future
\* that resolves to w.  (No opts.maxDepth is set.)
InnerFutures(o) ==
  LET v == tasks[o].val[3]
  IN IF maxDepth = 0 /\ tasks[o].kind = CHUNK_VALUE_TYPE_PROMISE
        /\ Len(tasks[o].path) = 1 /\ tasks[o].val[2] = "resolve" /\ v[1] = "obj"
     THEN {i \in 1..Len(v[2]) :
             /\ v[2][i][2][1] = "promise"
             /\ v[2][i][2][2] = "resolve"
             /\ v[2][i][2][3][1] = "prim"}
     ELSE {}

C8_NestedRoundTrip ==
  \A o \in DOMAIN tasks : \A e \in InnerFutures(o) :
    LET key == tasks[o].val[3][2][e][1]
        w == tasks[o].val[3][2][e][2][3]
    IN \A p \in TerminalPositions(o) :
         LET dv == wire[p].body[3]
         IN /\ wire[p].body[2] = PROMISE_STATUS_FULFILLED
            /\ \E d \in 1..Len(dv[3]) :
                 LET desc == dv[3][d]
                     n == desc[3]
                 IN /\ desc[1] = key
                    /\ desc[2] = CHUNK_VALUE_TYPE_PROMISE
                    /\ n # o
                    /\ \A q \in 1..(p - 1) :
                         n \notin LineRefs(wire[q])
                         /\ (wire[q].kind = "chunk" => wire[q].body[1] # n)
                    /\ (sink = "closed" /\ o \in DOMAIN wrappers) =>
                         /\ wrappers[o].st = "resolved"
                         /\ wrappers[o].res[1] = "obj"
                         /\ \E x \in 1..Len(wrappers[o].res[2]) :
                              wrappers[o].res[2][x]
                                = <<key, Wrapper(CHUNK_VALUE_TYPE_PROMISE, n)>>
                         /\ n \in DOMAIN wrappers
                         /\ wrappers[n].st # "pending" =>
                              /\ wrappers[n].st = "resolved"
                              /\ DeepEqual(wrappers[n].res, w)

\* C9: once the byte stream has been cut (the sink aborted), the head future
\* is not left pending, and every wrapper that is still unsettled has the
\* StreamInterruptedError (or a chunk before it) waiting in its sub-stream, so
\* that it rejects / throws when it is read.
C9_Interruption ==
  sink = "aborted" =>
    /\ headDeferred # "pending"
    /\ \A id \in DOMAIN wrappers :
         wrappers[id].st = "pending" => (sub[id].q # <<>> \/ sub[id].closed)

\* C10: each sub-stream receives exactly the delivered chunks of its own
\* chunk-id, in the order of the wire, and a settled future wrapper was settled
\* from the first chunk of its own id.
C10_Routing ==
  \A id \in DOMAIN sub :
    /\ sub[id].hist = SelectSeq(Delivered, LAMBDA c : c[1] = id)
    /\ (wrappers[id].type = CHUNK_VALUE_TYPE_PROMISE /\ wrappers[id].st = "resolved") =>
         /\ sub[id].hist[1][2] = PROMISE_STATUS_FULFILLED
         /\ sub[id].hist[1][3][3] = <<>> => wrappers[id].res = sub[id].hist[1][3][2]

\* chunk of id 1 ahead of the chunk of id 0, both futures resolved to their own value
C10_Witness ==
  /\ Len(wire) = 3
  /\ wire[2].body[1] = 1
  /\ wire[3].body[1] = 0
  /\ DOMAIN wrappers = {0, 1}
  /\ wrappers[0].st = "resolved" /\ wrappers[0].res = Prim("1")
  /\ wrappers[1].st = "resolved" /\ wrappers[1].res = Prim("2")

----------------------------------------------------------------------------
\* the producer has emitted REJECTED for the future i / ERROR for the sequence i
ErrorEmitted(i) ==
  \E p \in ChunkPositions(i) :
    wire[p].body[2] = (IF tasks[i].kind = CHUNK_VALUE_TYPE_PROMISE
                       THEN PROMISE_STATUS_REJECTED ELSE ASYNC_ITERABLE_STATUS_ERROR)

\* the VALUE chunks of the sequence id on the wire
ValuePositions(id) ==
  {p \in ChunkPositions(id) : wire[p].body[2] = ASYNC_ITERABLE_STATUS_VALUE}

\* the wrapper of id has rejected / thrown
WrapperFailed(id) == wrappers[id].st \in {"rejected", "threw"}

\* C11: after REJECTED / ERROR has been emitted for leaf i on a stream that is
\* not cancelled, the stream is not closed while an id is pending; every other
\* leaf whose task has ended has emitted its terminal chunk (and a sequence
\* that finished, all its values before it); and on a consumer whose byte
\* stream is still open a wrapper has rejected / thrown only from a REJECTED /
\* ERROR chunk of its own id.
C11_LeafErrorIsolation ==
  \A i \in DOMAIN tasks :
    (pstate = "running" /\ ~cancelled /\ ErrorEmitted(i)) =>
      /\ closed => pending = {}
      /\ \A j \in DOMAIN tasks \ {i} :
           TaskOver(j) =>
             /\ Cardinality(TerminalPositions(j)) = 1
             /\ (tasks[j].kind = CHUNK_VALUE_TYPE_ASYNC_ITERABLE /\ tasks[j].pc = "end") =>
                  Cardinality(ValuePositions(j)) = Len(tasks[j].val[2])
      /\ sink = "open" =>
           \A j \in DOMAIN wrappers :
             WrapperFailed(j) =>
               /\ wrappers[j].res[2] = "AsyncError"
               /\ sub[j].hist # <<>>
               /\ \E k \in 1..Len(sub[j].hist) :
                    /\ sub[j].hist[k][1] = j
                    /\ sub[j].hist[k][2] = (IF wrappers[j].type = CHUNK_VALUE_TYPE_PROMISE
                                            THEN PROMISE_STATUS_REJECTED
                                            ELSE ASYNC_ITERABLE_STATUS_ERROR)
                    /\ ErrorEmitted(j)

----------------------------------------------------------------------------
\* C12: stream.controller.close() has been called only with the pending set
\* empty and every leaf task (nested ones included) at its end; once the
\* stream is closed it stays closed, no chunk is enqueued any more, and
\* maybeClose() never finds its condition true again (close() is called at
\* most once).
C12_CloseOnlyWhenIdle ==
  /\ [](closed => /\ pending = {}
                  /\ \A id \in DOMAIN tasks : tasks[id].pc = "end")
  /\ [][closed => /\ closed'
                  /\ wire' = wire
                  /\ pending' = pending
                  /\ tasks' = tasks]_vars

\* the stream closed after a leaf and the leaf nested in its value have both
\* emitted their chunks
C12_Witness ==
  /\ closed
  /\ \E i, j \in DOMAIN tasks :
       /\ Len(tasks[i].path) = 1
       /\ Len(tasks[j].path) = 2
       /\ TerminalPositions(i) # {}
       /\ TerminalPositions(j) # {}
       /\ \E p \in TerminalPositions(i) : \E q \in TerminalPositions(j) : p < q

----------------------------------------------------------------------------
\* C13: in every step taken once the outgoing stream has been cancelled, no
\* chunk is enqueued and opts.onError is not called; a sequence leaf that
\* leaves its loop does so through iterator.return(); and a leaf whose task
\* ends in the step is no longer in the pending set.
C13_Cancellation ==
  [][cancelled =>
       /\ wire' = wire
       /\ errs' = errs
       /\ \A id \in DOMAIN tasks :
            /\ ( /\ tasks[id].kind = CHUNK_VALUE_TYPE_ASYNC_ITERABLE
                 /\ tasks[id].pc = "loop"
                 /\ tasks'[id].pc # "loop" ) => tasks'[id].pc = "return"
            /\ (~TaskOver(id) /\ TaskOver(id)') => id \notin pending']_vars

----------------------------------------------------------------------------
\* C14: every chunk line on the wire carries a chunk-id that a descriptor in
\* the head line, or in the payload of a chunk line before it, refers to.
C14_ReferencedBeforeEmitted ==
  \A p \in 2..Len(wire) :
    \E q \in 1..(p - 1) : wire[p].body[1] \in LineRefs(wire[q])

----------------------------------------------------------------------------
\* C15: the chunkDeferred map holds at most one id, never one that has a
\* controller, and it holds exactly the id the writer is suspended on.  While
\* write is suspended no further line is taken; the suspension ends only by a
\* descriptor of that id being rehydrated (its controller is then installed),
\* and the resumed write enqueues the held chunk to the sub-stream of that id
\* and to no other.
C15_FlowControl ==
  /\ [](/\ Cardinality(chunkDeferred) <= 1
        /\ chunkDeferred \cap controllers = {}
        /\ writer.st = "await" =>
             chunkDeferred = {writer.idx} /\ writer.chunk[1] = writer.idx
        /\ writer.st # "await" => chunkDeferred = {})
  /\ [][/\ writer.st # "idle" => rd' = rd
        /\ (writer.st = "await" /\ writer' # writer) =>
             /\ writer' = [writer EXCEPT !.st = "resolved"]
             /\ writer.idx \in controllers'
             /\ writer.idx \in DOMAIN sub'
        /\ (writer.st = "resolved" /\ writer' # writer) =>
             /\ writer' = Idle
             /\ sub'[writer.idx].hist = Append(sub[writer.idx].hist, writer.chunk)
             /\ sub'[writer.idx].q = Append(sub[writer.idx].q, ChunkItem(writer.chunk))
             /\ \A id \in DOMAIN sub \ {writer.idx} : sub'[id] = sub[id]]_vars

\* the writer was suspended on the chunk of a nested id with a later line
\* waiting behind it, and the consumer has just rehydrated that id's descriptor
C15_Witness ==
  /\ writer.st = "resolved"
  /\ writer.idx \in controllers
  /\ sub[writer.idx].hist = <<>>
  /\ rd < Len(wire)

----------------------------------------------------------------------------
\* C16: a wrapper that is settled / terminated has no entry in the controllers
\* map, and once the sink has been closed or aborted (closeOrAbort has run)
\* the controllers map is empty in every state.
C16_ControllersReleased ==
  /\ \A id \in DOMAIN wrappers : wrappers[id].st # "pending" => id \notin controllers
  /\ sink # "open" => controllers = {}

----------------------------------------------------------------------------
\* the chunks the wrapper of id has taken from its sub-stream so far
ChunksRead(id) ==
  LET waiting == Cardinality({k \in 1..Len(sub[id].q) : sub[id].q[k].k = "chunk"})
  IN SubSeq(sub[id].hist, 1, Len(sub[id].hist) - waiting)

\* the status codes the protocol defines for a kind of leaf
DefinedStatus(type) ==
  IF type = CHUNK_VALUE_TYPE_PROMISE
  THEN {PROMISE_STATUS_FULFILLED, PROMISE_STATUS_REJECTED}
  ELSE {ASYNC_ITERABLE_STATUS_DONE, ASYNC_ITERABLE_STATUS_VALUE, ASYNC_ITERABLE_STATUS_ERROR}

\* C17: a future whose sub-stream was closed and drained without a chunk has
\* rejected; a future that has taken a chunk with a status code other than
\* FULFILLED / REJECTED has rejected; a sequence that has taken a chunk with a
\* status code other than DONE / VALUE / ERROR has thrown.
C17_ProtocolErrors ==
  \A id \in DOMAIN wrappers :
    LET w == wrappers[id]
        read == ChunksRead(id)
    IN /\ ( /\ w.type = CHUNK_VALUE_TYPE_PROMISE
            /\ sub[id].closed /\ sub[id].q = <<>> /\ sub[id].hist = <<>> )
          => w.st = "rejected"
       /\ (\E k \in 1..Len(read) : read[k][2] \notin DefinedStatus(w.type))
          => w.st = (IF w.type = CHUNK_VALUE_TYPE_PROMISE THEN "rejected" ELSE "threw")

----------------------------------------------------------------------------
\* the concatenation of the first n chunks of the framer's input
RECURSIVE Concat(_, _)
Concat(chunks, n) == IF n = 0 THEN <<>> ELSE Concat(chunks, n - 1) \o chunks[n]

\* the positions of the newlines of a text
Newlines(text) == {i \in 1..Len(text) : text[i] = NL}

\* the position of the k-th newline of a text; 0 for k = 0
NthNewline(text, k) ==
  IF k = 0 THEN 0
  ELSE CHOOSE i \in Newlines(text) : Cardinality({j \in Newlines(text) : j <= i}) = k

\* the newline-terminated segments of a text, in order, without their newline
Terminated(text) ==
  [k \in 1..Cardinality(Newlines(text)) |->
     SubSeq(text, NthNewline(text, k - 1) + 1, NthNewline(text, k) - 1)]

\* C18: at every moment the lines the framer has emitted are exactly the
\* newline-terminated segments of the text it has been given so far, in order
\* (so no fragment is out before its newline has arrived); what it holds back
\* is the text after the last newline; and at the end of the input the
\* emitted lines are the newline-terminated segments of the whole text, the
\* residual fragment is not among them.
C18_LineFramer ==
  LET given == Concat(source, taken)
      n == Cardinality(Newlines(given))
  IN /\ lines = Terminated(given)
     /\ lineAggregate = SubSeq(given, NthNewline(given, n) + 1, Len(given))
     /\ ended => /\ taken = Len(source)
                 /\ Len(lines) = Cardinality(Newlines(Concat(source, Len(source))))

\* a line cut across two chunks, a chunk holding two newlines, and a residual
\* fragment at the end of the input
C18_Witness ==
  /\ ended
  /\ lineAggregate # <<>>
  /\ Len(lines) >= 3
  /\ \E k \in 1..(Len(source) - 1) :
       /\ source[k] # <<>>
       /\ source[k][Len(source[k])] # NL
       /\ source[k + 1] # <<>>
       /\ source[k + 1][1] # NL
       /\ Newlines(source[k + 1]) # {}
  /\ \E k \in 1..Len(source) : Cardinality(Newlines(source[k])) = 2

----------------------------------------------------------------------------
\* the user's leaf was replaced by one that fails with a MaxDepthError
DepthReplaced(id) ==
  \/ tasks[id].val = Prom("reject", Prim("MaxDepthError"))
  \/ tasks[id].val = Iter(<<>>, "maxdepth")

\* C19: with opts.maxDepth = d >= 1, a root field (path length 1 <= d) holding
\* a future or a sequence does not make the producer throw and gets a task
\* streaming the user's own leaf; a leaf is replaced by a MaxDepth failure only
\* at a path longer than d; and on a stream that is not cancelled no leaf task
\* ends without its terminal chunk or with its id left in the pending set
\* because dehydrating a value it produced ran into the depth limit.
C19_DepthThreshold ==
  (maxDepth >= 1 /\ pstate # "init") =>
    /\ pstate = "running"
    /\ \A e \in 1..Len(data) :
         (isPromise(data[e][2]) \/ isAsyncIterable(data[e][2])) =>
           \E id \in DOMAIN tasks :
             tasks[id].path = <<data[e][1]>> /\ tasks[id].val = data[e][2]
    /\ \A id \in DOMAIN tasks : DepthReplaced(id) => Len(tasks[id].path) > maxDepth
    /\ ~cancelled =>
         \A id \in DOMAIN tasks :
           /\ tasks[id].pc # "crashed"
           /\ (tasks[id].pc = "end" /\ tasks[id].cause = "Max depth reached") =>
                /\ id \notin pending
                /\ \E p \in TerminalPositions(id) :
                     wire[p].body[2] = PROMISE_STATUS_REJECTED

----------------------------------------------------------------------------
\* the terminal chunk of id has been written to its sub-stream
TerminalWritten(id) ==
  \E k \in 1..Len(sub[id].hist) : IsTerminal(wrappers[id].type, sub[id].hist[k])

\* the VALUE chunks written to the sub-stream of id
ValuesWritten(id) ==
  SelectSeq(sub[id].hist, LAMBDA c : ~IsTerminal(wrappers[id].type, c))

\* C20: a wrapper whose terminal chunk has been written to its sub-stream
\* never fails with StreamInterruptedError, before or after the byte stream
\* has ended: while it has not taken its terminal chunk, that chunk waits in
\* the sub-stream ahead of any StreamInterruptedError; a future settles from
\* its own chunk; and a sequence that has ended has yielded one value per
\* VALUE chunk written and ended by DONE or by its own ERROR.
C20_NoSpuriousInterruption ==
  \A id \in DOMAIN wrappers :
    TerminalWritten(id) =>
      LET w == wrappers[id]
          q == sub[id].q
          first == sub[id].hist[1]
      IN /\ ~(WrapperFailed(id) /\ w.res[2] = "StreamInterruptedError")
         /\ w.st = "pending" =>
              \E k \in 1..Len(q) :
                /\ q[k].k = "chunk"
                /\ IsTerminal(w.type, q[k].c)
                /\ \A j \in 1..(k - 1) : q[j].k = "chunk"
         /\ (w.type = CHUNK_VALUE_TYPE_PROMISE /\ w.st # "pending") =>
              \/ w.st = "resolved" /\ first[2] = PROMISE_STATUS_FULFILLED
              \/ /\ w.st = "rejected" /\ first[2] = PROMISE_STATUS_REJECTED
                 /\ w.res = Err("AsyncError", first[3])
         /\ (w.type = CHUNK_VALUE_TYPE_ASYNC_ITERABLE /\ w.st # "pending") =>
              /\ Len(w.yielded) = Len(ValuesWritten(id))
              /\ \/ w.st = "done"
                 \/ w.st = "threw" /\ w.res[2] = "AsyncError"

\* a sequence read to its end after the byte stream had ended normally: the
\* StreamInterruptedError closeOrAbort enqueued is still in its sub-stream
C20_Witness ==
  \E id \in DOMAIN wrappers :
    /\ sink = "closed"
    /\ wrappers[id].type = CHUNK_VALUE_TYPE_ASYNC_ITERABLE
    /\ wrappers[id].st = "done"
    /\ Len(wrappers[id].yielded) = 2
    /\ sub[id].q = <<Sentinel>>

----------------------------------------------------------------------------
\* the user code has the head, every future in it has settled and every
\* sequence in it has terminated
AllSettled ==
  /\ headDeferred = "null"
  /\ \A id \in RootIds : wrappers[id].st # "pending"

\* C21: once the producer has closed its stream (the byte stream is complete),
\* the user code that awaits the leaves of the head one after another, in
\* whatever order, eventually has every future settled and every sequence
\* terminated.
C21_ConsumerProgress == closed ~> AllSettled

====
